---- MODULE Spec2Model ----
(***************************************************************************)
(* The email campaign application of src/app.py as a state machine: the    *)
(* campaign run (thread pool submission, workers executing send_email, the *)
(* result collection loop of the script thread), send_email itself, the    *)
(* message renderer and the resume store helpers.                          *)
(***************************************************************************)
EXTENDS Integers, Sequences, FiniteSets, TLC

\* ------------------------------------------------------------- bounds

\* Longest recipient list of the ordinary runs.
MaxRecipients == 3

\* In the run that fills the pool (max_workers + 1 recipients) the relay
\* answers only the attempts of the last PoolResponsive recipients.
PoolResponsive == 2

\* Longest address handed to the renderer on its own.
MaxAddressLen == 2

\* ThreadPoolExecutor(max_workers=20)
max_workers == 20

\* ------------------------------------------------------------ strings

\* A Python str that the code inspects character by character is a
\* sequence of characters; CheckMark and CrossMark are the two code
\* points the result strings are tested for.
CheckMark == "U+2705"
CrossMark == "U+274C"

\* pandas' missing-value marker (float nan) of an empty CSV cell. Every cell
\* value is a sequence, so a str and the marker can be compared.
NaN == << "float_nan" >>

\* The None object where a str is expected (a parameter's default).
PyNone == << "None" >>

\* `ch in s` for a one-character needle: app.py tests `"✅" in result`.
Contains(s, ch) == \E k \in DOMAIN s : s[k] = ch

\* 1 when the Python bool is True, 0 otherwise (int += bool).
BoolToInt(b) == IF b THEN 1 ELSE 0

\* ------------------------------------------------------------- inputs

\* The rows a CSV may hold, before the columns are cut to those present.
PlainEmail == <<"a", "@", "x">>
MarkedEmail == <<CheckMark, "@", "x">>

RowSet ==
    { [email |-> PlainEmail, full_name |-> <<"A", "n", "n">>],
      [email |-> MarkedEmail, full_name |-> <<"B", "o", "b">>],
      [email |-> PlainEmail, full_name |-> NaN] }

\* The column sets of the frame after the header normalisation.
ColumnSets == { {"email", "full_name"}, {"full_name"}, {"email"} }

\* A row of a frame whose columns are cols.
RowOf(r, cols) == [c \in cols |-> r[c]]

\* Sequences over S of length 0..n.
SeqUpTo(S, n) == UNION { [1..m -> S] : m \in 0..n }

\* How the relay treats one attempt: the first transport call that fails.
Fates == {"ok", "connect", "starttls", "login", "refused", "quit"}

\* The Email Subject field: empty, plain, or with a space and a reserved
\* character.
Subjects == { << >>, <<"H", "i">>, <<"a", " ", "&">> }

\* The subject of the campaign runs.
CampaignSubject == <<"a", " ", "&">>

\* The values generate_email_html is given for the name and the address.
RenderNames == { PyNone, << >>, NaN, <<"A", "n", "n">> }
RenderAddresses == SeqUpTo({"a", "@", "+"}, MaxAddressLen) \cup { PyNone }

\* The body template typed into the editor, as tokens.
NamePlaceholder == "{name}"
custom_html == <<"Hi ", NamePlaceholder, "!">>

\* ------------------------------------------------------------- state

VARIABLES
    columns,      \* df.columns after lower/strip/rename
    recipients,   \* the rows of df, in order
    responsive,   \* the rows whose transport calls return
    pc,           \* the script thread: idle, submit, collect, unwind,
                  \* completed, aborted
    futures,      \* the futures list; one record per submitted row
    i,            \* results collected so far by the enumerate loop
    delivered,    \* counter of line 236
    failed,       \* counter of line 237
    progress,     \* the values handed to the progress bar, in order
    store,        \* campaign_resume/: timestamp -> file text, or NoFile
    loaded,       \* what the last load_resume_point call returned
    lastSaved,    \* history: the arguments of the last save per timestamp
    stop,         \* the operator has asked the run to stop
    startedAtStop, \* history: attempts started when the stop was asked
    sheet,        \* the rows appended to the CampaignHistory sheet
    subject,      \* the Email Subject field
    rendered      \* the last call of generate_email_html and its result

vars == << columns, recipients, responsive, pc, futures, i, delivered,
           failed, progress, store, loaded, lastSaved, stop, startedAtStop,
           sheet, subject, rendered >>

runVars == << columns, recipients, responsive, pc, futures, i, delivered,
              failed, progress >>
storeVars == << store, loaded, lastSaved >>
stopVars == << stop, startedAtStop >>
sinkVars == << sheet >>
renderVars == << subject, rendered >>

\* --------------------------------------------------- message renderer

\* Python's `x or y` takes y when x is falsy: None or the empty str (float
\* nan is truthy).
IsFalsy(v) == v = << >> \/ v = PyNone

\* `full_name or ""`
OrEmpty(v) == IF IsFalsy(v) THEN << >> ELSE v

\* str.replace(old, new) raises TypeError unless new is a str.
IsStr(v) == v # NaN

\* custom_html.replace("{name}", v): every occurrence, left to right.
RECURSIVE ReplaceName(_, _)
ReplaceName(tpl, v) ==
    IF tpl = << >> THEN << >>
    ELSE (IF Head(tpl) = NamePlaceholder THEN v ELSE << Head(tpl) >>)
         \o ReplaceName(Tail(tpl), v)

\* The characters urllib.parse.quote(s, safe="") escapes, among those the
\* inputs are made of: reserved characters, the space and non-ASCII.
ReservedChars == { "@", "+", "&", " ", ":", "/", CheckMark }

\* quote() of one character: letters, digits and _.-~ stay, every other
\* character becomes the %XX of its UTF-8 bytes.
PercentEncode(c) ==
    CASE c = "@" -> "%40"
      [] c = "+" -> "%2B"
      [] c = "&" -> "%26"
      [] c = " " -> "%20"
      [] c = ":" -> "%3A"
      [] c = "/" -> "%2F"
      [] c = CheckMark -> "%E2%9C%85"
      [] OTHER -> c

\* urllib.parse.quote(s, safe="")
quote(s) == [k \in DOMAIN s |-> PercentEncode(s[k])]

\* The defaults of lines 70-71 and the Button URL field, whose value is
\* its default. A literal of the program is one lexeme of a URL.
UnknownEmail == << "unknown@example.com" >>
NoSubject == << "N", "o", " ", "S", "u", "b", "j", "e", "c", "t" >>
cta_url == << "https", ":", "/", "/", "www.eventbrite.com", "/" >>

\* The three URLs of lines 74-87 for the address text put into them and
\* the encoded subject and button URL.
tracking_link(email_for_tracking, encoded_cta_url, encoded_subject) ==
    << "https://tracking-enfw.onrender.com/track/click", "?email=" >>
    \o email_for_tracking \o << "&url=" >> \o encoded_cta_url
    \o << "&subject=" >> \o encoded_subject

tracking_pixel(email_for_tracking, encoded_subject) ==
    << "https://tracking-enfw.onrender.com/track/open", "?email=" >>
    \o email_for_tracking \o << "&subject=" >> \o encoded_subject

unsubscribe_link(email_for_tracking) ==
    << "https://unsubscribe-uofn.onrender.com/unsubscribe", "?email=" >>
    \o email_for_tracking

\* generate_email_html: the three URLs and the rendered body, or the
\* exception of line 89.
generate_email_html(full_name, recipient_email, subj) ==
    LET email_for_tracking ==
            IF IsFalsy(recipient_email) THEN UnknownEmail ELSE recipient_email
        encoded_subject == quote(IF IsFalsy(subj) THEN NoSubject ELSE subj)
        encoded_cta_url == quote(cta_url)
        click == tracking_link(email_for_tracking, encoded_cta_url,
                               encoded_subject)
        open == tracking_pixel(email_for_tracking, encoded_subject)
        unsub == unsubscribe_link(email_for_tracking)
        v == OrEmpty(full_name)
    IN  IF IsStr(v)
        THEN [ raised |-> FALSE,
               open_url |-> open, click_url |-> click, unsubscribe_url |-> unsub,
               html |-> << "<img src=" >> \o open \o << "/>" >>
                        \o ReplaceName(custom_html, v)
                        \o << "<a href=" >> \o click \o << ">" >>
                        \o << "<a href=" >> \o unsub \o << ">" >> ]
        ELSE [ raised |-> TRUE,
               open_url |-> open, click_url |-> click, unsubscribe_url |-> unsub,
               html |-> << >> ]

\* --------------------------------------------------------- send_email

\* The first statement of the try block that raises, in program order,
\* for a row and the relay's treatment of the attempt; "none" when the
\* block runs to its return.
FailStep(row, fate) ==
    IF fate = "connect" THEN "connect"
    ELSE IF fate = "starttls" THEN "starttls"
    ELSE IF fate = "login" THEN "login"
    ELSE IF "email" \notin DOMAIN row THEN "row_email"
    ELSE IF "full_name" \notin DOMAIN row THEN "row_full_name"
    ELSE IF generate_email_html(row["full_name"], row["email"], subject).raised
         THEN "render"
    ELSE IF fate = "refused" THEN "send_message"
    ELSE IF fate = "quit" THEN "quit"
    ELSE "none"

\* str(e) of the exception raised at a step. SMTPRecipientsRefused holds
\* the refused addresses, so its text repeats the recipient's address.
ReasonText(step, row) ==
    CASE step = "connect" -> <<"[Errno 111] Connection refused">>
      [] step = "starttls" -> <<"STARTTLS extension not supported by server.">>
      [] step = "login" -> <<"(535, b'Authentication failed')">>
      [] step = "row_email" -> <<"'email'">>
      [] step = "row_full_name" -> <<"'full_name'">>
      [] step = "render" -> <<"replace() argument 2 must be str, not float">>
      [] step = "send_message" ->
            <<"{'">> \o row["email"] \o <<"': (550, b'User unknown')}">>
      [] step = "quit" -> <<"Connection unexpectedly closed">>

DeliveredText == <<CheckMark, " Delivered">>
FailedText(reason) == <<CrossMark, " Failed: ">> \o reason

\* The connection after the call: smtplib.SMTP(...) opens it and only
\* server.quit(), the last statement of the straight path, closes it (a
\* quit whose reply cannot be read closes the socket as it raises).
ConnAfter(step) ==
    IF step = "connect" THEN "none"
    ELSE IF step \in {"none", "quit"} THEN "closed"
    ELSE "open"

\* Whether the except handler itself raises: it reads row["email"].
HandlerRaises(row) == "email" \notin DOMAIN row

\* Mutant of send_email: a refusal by the relay is not noticed.
send_email_IgnoreRefusal(row, fate) ==
    LET step == FailStep(row, fate)
    IN  [ raised |-> step \notin {"none", "send_message"} /\ HandlerRaises(row),
          result |-> IF step \in {"none", "send_message"} THEN DeliveredText
                     ELSE IF HandlerRaises(row) THEN <<>>
                     ELSE FailedText(ReasonText(step, row)),
          step |-> step,
          conn |-> ConnAfter(step),
          transmitted |-> step \in {"quit", "none"} ]

\* send_email(row) under the relay's treatment fate: what the call
\* leaves behind and what it returns or raises.
send_email(row, fate) ==
    LET step == FailStep(row, fate)
    IN  [ raised |-> step # "none" /\ HandlerRaises(row),
          result |-> IF step = "none" THEN DeliveredText
                     ELSE IF HandlerRaises(row) THEN <<>>
                     ELSE FailedText(ReasonText(step, row)),
          step |-> step,
          conn |-> ConnAfter(step),
          transmitted |-> step \in {"quit", "none"} ]

\* ------------------------------------------------------- resume store

\* The text json.dump writes, as a sequence of lexemes: punctuation, keys,
\* and the characters of each string between quotes. json.dump escapes a
\* non-ASCII character (ensure_ascii) and json.load undoes it.
Quote == "\""
EscapedCheckMark == "\\u2705"

EscapeChar(c) == IF c = CheckMark THEN EscapedCheckMark ELSE c
UnescapeChar(c) == IF c = EscapedCheckMark THEN CheckMark ELSE c

JsonStr(chars) ==
    << Quote >> \o [k \in DOMAIN chars |-> EscapeChar(chars[k])] \o << Quote >>

\* A cell: a str, or float nan, which json.dump writes as the bare NaN.
JsonValue(v) == IF v = NaN THEN << "NaN" >> ELSE JsonStr(v)

\* The keys of a row dict in the order the frame holds its columns.
KeyOrder == << "email", "full_name" >>
KeysOf(row) == SelectSeq(KeyOrder, LAMBDA c : c \in DOMAIN row)

RECURSIVE JsonFields(_, _)
JsonFields(row, keys) ==
    IF keys = << >> THEN << >>
    ELSE JsonStr(<< Head(keys) >>) \o << ":" >> \o JsonValue(row[Head(keys)])
         \o (IF Tail(keys) = << >> THEN << >> ELSE << "," >>)
         \o JsonFields(row, Tail(keys))

JsonRow(row) == << "{" >> \o JsonFields(row, KeysOf(row)) \o << "}" >>

RECURSIVE JsonRows(_)
JsonRows(rows) ==
    IF rows = << >> THEN << >>
    ELSE JsonRow(Head(rows))
         \o (IF Tail(rows) = << >> THEN << >> ELSE << "," >>)
         \o JsonRows(Tail(rows))

Digits == << "0", "1", "2", "3", "4", "5", "6", "7", "8", "9" >>

RECURSIVE JsonInt(_)
JsonInt(n) ==
    IF n < 10 THEN << Digits[n + 1] >>
    ELSE JsonInt(n \div 10) \o << Digits[(n % 10) + 1] >>

\* json.dump({"data": data, "last_sent_index": last_sent_index}, f)
json_dump(data, last_sent_index) ==
    << "{" >> \o JsonStr(<< "data" >>) \o << ":", "[" >> \o JsonRows(data)
    \o << "]", "," >> \o JsonStr(<< "last_sent_index" >>) \o << ":" >>
    \o JsonInt(last_sent_index) \o << "}" >>

\* The parser: each Parse operator reads text t from position p and gives
\* [ok, val, pos], pos being the position after what it read.
ParseFail == [ok |-> FALSE, val |-> << >>, pos |-> 0]

At(t, p) == IF p \in DOMAIN t THEN t[p] ELSE "<eof>"

\* Position of the first closing quote at or after p, 0 when there is none.
RECURSIVE ClosingQuote(_, _)
ClosingQuote(t, p) ==
    IF p \notin DOMAIN t THEN 0
    ELSE IF t[p] = Quote THEN p
    ELSE ClosingQuote(t, p + 1)

ParseStr(t, p) ==
    IF At(t, p) # Quote THEN ParseFail
    ELSE LET q == ClosingQuote(t, p + 1)
         IN  IF q = 0 THEN ParseFail
             ELSE [ ok |-> TRUE,
                    val |-> [k \in 1..(q - p - 1) |-> UnescapeChar(t[p + k])],
                    pos |-> q + 1 ]

ParseValue(t, p) ==
    IF At(t, p) = "NaN" THEN [ok |-> TRUE, val |-> NaN, pos |-> p + 1]
    ELSE ParseStr(t, p)

DigitValue(c) == CHOOSE d \in 0..9 : Digits[d + 1] = c
IsDigit(c) == \E d \in 0..9 : Digits[d + 1] = c

RECURSIVE ParseDigits(_, _, _)
ParseDigits(t, p, acc) ==
    IF IsDigit(At(t, p)) THEN ParseDigits(t, p + 1, 10 * acc + DigitValue(t[p]))
    ELSE [ok |-> TRUE, val |-> acc, pos |-> p]

ParseInt(t, p) == IF IsDigit(At(t, p)) THEN ParseDigits(t, p, 0) ELSE ParseFail

\* The members of an object from position p (after "{" or a ","), as a
\* sequence of <<key, value>> pairs, up to and including the "}".
RECURSIVE ParseMembers(_, _, _)
ParseMembers(t, p, acc) ==
    LET k == ParseStr(t, p)
    IN  IF ~k.ok \/ Len(k.val) # 1 \/ At(t, k.pos) # ":" THEN ParseFail
        ELSE LET v == ParseValue(t, k.pos + 1)
                 got == Append(acc, << k.val[1], v.val >>)
             IN  IF ~v.ok THEN ParseFail
                 ELSE IF At(t, v.pos) = "," THEN ParseMembers(t, v.pos + 1, got)
                 ELSE IF At(t, v.pos) = "}"
                      THEN [ok |-> TRUE, val |-> got, pos |-> v.pos + 1]
                 ELSE ParseFail

\* The dict of a sequence of <<key, value>> pairs; a later pair wins.
DictOf(pairs) ==
    [ c \in { pairs[k][1] : k \in DOMAIN pairs } |->
        LET last == CHOOSE k \in DOMAIN pairs :
                        /\ pairs[k][1] = c
                        /\ \A j \in DOMAIN pairs : pairs[j][1] = c => j <= k
        IN  pairs[last][2] ]

ParseRow(t, p) ==
    IF At(t, p) # "{" THEN ParseFail
    ELSE IF At(t, p + 1) = "}"
         THEN [ok |-> TRUE, val |-> DictOf(<< >>), pos |-> p + 2]
    ELSE LET m == ParseMembers(t, p + 1, << >>)
         IN  IF m.ok THEN [ok |-> TRUE, val |-> DictOf(m.val), pos |-> m.pos]
             ELSE ParseFail

\* The elements of an array from position p, up to and including the "]".
RECURSIVE ParseElements(_, _, _)
ParseElements(t, p, acc) ==
    LET r == ParseRow(t, p)
    IN  IF ~r.ok THEN ParseFail
        ELSE IF At(t, r.pos) = "," THEN ParseElements(t, r.pos + 1, Append(acc, r.val))
        ELSE IF At(t, r.pos) = "]"
             THEN [ok |-> TRUE, val |-> Append(acc, r.val), pos |-> r.pos + 1]
        ELSE ParseFail

ParseRows(t, p) ==
    IF At(t, p) # "[" THEN ParseFail
    ELSE IF At(t, p + 1) = "]" THEN [ok |-> TRUE, val |-> << >>, pos |-> p + 2]
    ELSE ParseElements(t, p + 1, << >>)

\* json.load(f) of a checkpoint file: the dict, or a decoding error.
json_load(t) ==
    LET k1 == ParseStr(t, 2)
        d == ParseRows(t, k1.pos + 1)
        k2 == ParseStr(t, d.pos + 1)
        n == ParseInt(t, k2.pos + 1)
    IN  IF /\ At(t, 1) = "{"
           /\ k1.ok /\ k1.val = << "data" >> /\ At(t, k1.pos) = ":"
           /\ d.ok /\ At(t, d.pos) = ","
           /\ k2.ok /\ k2.val = << "last_sent_index" >> /\ At(t, k2.pos) = ":"
           /\ n.ok /\ At(t, n.pos) = "}" /\ n.pos = Len(t)
        THEN [ok |-> TRUE, val |-> [data |-> d.val, last_sent_index |-> n.val]]
        ELSE [ok |-> FALSE, val |-> << >>]

\* The run identifiers the helpers are called with.
Timestamps == {"t1", "t2"}

\* Mutant of PathOf: one file name for every run.
PathOf_OneFile(timestamp) == << "campaign_resume/", "resume", ".json" >>

\* f"campaign_resume/{timestamp}.json"
PathOf(timestamp) == << "campaign_resume/", timestamp, ".json" >>

Paths == { PathOf(ts) : ts \in Timestamps }

\* The content of a path that holds no file.
NoFile == << "<no file>" >>

\* The value load_resume_point gives when it cannot read a checkpoint.
None == [none |-> TRUE]

\* open(path, "w") truncates the file, json.dump writes the checkpoint.
save_resume_point(files, timestamp, data, last_sent_index) ==
    [files EXCEPT ![PathOf(timestamp)] = json_dump(data, last_sent_index)]

\* open(path) then json.load; the bare except turns a missing file and a
\* decoding error alike into None.
load_resume_point(files, timestamp) ==
    LET text == files[PathOf(timestamp)]
    IN  IF text = NoFile THEN None
        ELSE IF json_load(text).ok THEN json_load(text).val
        ELSE None


\* ---------------------------------------------------------- the pool

NumRows == Len(recipients)

Submitted == DOMAIN futures

Running == { k \in Submitted : futures[k].state = "running" }
Queued == { k \in Submitted : futures[k].state = "queued" }
Done == { k \in Submitted : futures[k].state \in {"returned", "raised"} }

\* Attempts begun so far (running or finished).
NumStarted == Cardinality(Running) + Cardinality(Done)

\* Mutant of PoolHasFreeWorker: a thread is started for every work item.
PoolHasFreeWorker_NoCap == TRUE

\* The executor never has more than max_workers threads, and a thread
\* runs one work item at a time: an item leaves the queue only when a
\* thread is free.
PoolHasFreeWorker == Cardinality(Running) < max_workers

\* The work queue is first-in first-out.
NextQueued == CHOOSE k \in Queued : \A j \in Queued : k <= j

\* Mutant of FutureAfter: a failed attempt is put back on the queue.
FutureAfter_Retry(f, out) ==
    [ f EXCEPT !.state = IF out.raised THEN "raised"
                         ELSE IF out.step # "none" THEN "queued"
                         ELSE "returned",
               !.result = out.result,
               !.step = out.step,
               !.conn = out.conn,
               !.transmitted = out.transmitted ]

\* The state of a future once its send_email call has ended.
FutureAfter(f, out) ==
    [ f EXCEPT !.state = IF out.raised THEN "raised" ELSE "returned",
               !.result = out.result,
               !.step = out.step,
               !.conn = out.conn,
               !.transmitted = out.transmitted ]

NewFuture ==
    [ state |-> "queued", result |-> <<>>, step |-> "none", conn |-> "none",
      transmitted |-> FALSE, attempts |-> 0 ]

\* ------------------------------------------------------ campaign run

\* if st.button("Start Campaign"): lines 210-219.
StartCampaign ==
    /\ pc = "idle"
    /\ pc' = "submit"
    /\ delivered' = 0
    /\ failed' = 0
    /\ progress' = << [num |-> 0, den |-> 1] >>
    /\ futures' = << >>
    /\ UNCHANGED << columns, recipients, responsive, i >>
    /\ UNCHANGED storeVars
    /\ UNCHANGED stopVars
    /\ UNCHANGED sinkVars
    /\ UNCHANGED renderVars

\* One iteration of the submission loop, lines 220-232.
Submit ==
    /\ pc = "submit"
    /\ Len(futures) < NumRows
    /\ futures' = Append(futures, NewFuture)
    /\ UNCHANGED << columns, recipients, responsive, pc, i, delivered,
                    failed, progress >>
    /\ UNCHANGED storeVars
    /\ UNCHANGED stopVars
    /\ UNCHANGED sinkVars
    /\ UNCHANGED renderVars

\* The submission loop is over: the enumerate loop of line 234 begins.
SubmitDone ==
    /\ pc = "submit"
    /\ Len(futures) = NumRows
    /\ pc' = "collect"
    /\ i' = 0
    /\ UNCHANGED << columns, recipients, responsive, futures, delivered,
                    failed, progress >>
    /\ UNCHANGED storeVars
    /\ UNCHANGED stopVars
    /\ UNCHANGED sinkVars
    /\ UNCHANGED renderVars

\* A pool thread takes the next work item and enters send_email.
WorkerStart ==
    /\ pc \in {"submit", "collect", "unwind"}
    /\ Queued # {}
    /\ PoolHasFreeWorker
    /\ LET k == NextQueued
       IN  futures' = [futures EXCEPT ![k].state = "running",
                                      ![k].attempts = @ + 1]
    /\ UNCHANGED << columns, recipients, responsive, pc, i, delivered,
                    failed, progress >>
    /\ UNCHANGED storeVars
    /\ UNCHANGED stopVars
    /\ UNCHANGED sinkVars
    /\ UNCHANGED renderVars

\* send_email runs to its end in a pool thread (lines 146-172).
WorkerRun(k, fate) ==
    /\ k \in Running
    /\ k \in responsive
    /\ futures' = [futures EXCEPT
                     ![k] = FutureAfter(@, send_email(recipients[k], fate))]
    /\ UNCHANGED << columns, recipients, responsive, pc, i, delivered,
                    failed, progress >>
    /\ UNCHANGED storeVars
    /\ UNCHANGED stopVars
    /\ UNCHANGED sinkVars
    /\ UNCHANGED renderVars

\* One iteration of the enumerate loop, lines 234-238: future.result()
\* of the next future in submission order returned a pair.
CollectResult ==
    /\ pc = "collect"
    /\ i < Len(futures)
    /\ futures[i + 1].state = "returned"
    /\ LET result == futures[i + 1].result
       IN  /\ delivered' = delivered + BoolToInt(Contains(result, CheckMark))
           /\ failed' = failed + BoolToInt(Contains(result, CrossMark))
    /\ progress' = Append(progress, [num |-> i + 1, den |-> NumRows])
    /\ i' = i + 1
    /\ UNCHANGED << columns, recipients, responsive, pc, futures >>
    /\ UNCHANGED storeVars
    /\ UNCHANGED stopVars
    /\ UNCHANGED sinkVars
    /\ UNCHANGED renderVars

\* future.result() re-raises what send_email raised: the exception leaves
\* the loop and the with block starts to unwind.
CollectRaise ==
    /\ pc = "collect"
    /\ i < Len(futures)
    /\ futures[i + 1].state = "raised"
    /\ pc' = "unwind"
    /\ UNCHANGED << columns, recipients, responsive, futures, i, delivered,
                    failed, progress >>
    /\ UNCHANGED storeVars
    /\ UNCHANGED stopVars
    /\ UNCHANGED sinkVars
    /\ UNCHANGED renderVars

\* The with block ends normally (every result was collected), then lines
\* 240-242 show the completed state and the counts. No statement of the
\* run calls get_google_sheet or appends a row to the sheet.
ExitPool ==
    /\ pc = "collect"
    /\ i = Len(futures)
    /\ pc' = "completed"
    /\ UNCHANGED << columns, recipients, responsive, futures, i, delivered,
                    failed, progress >>
    /\ UNCHANGED storeVars
    /\ UNCHANGED stopVars
    /\ UNCHANGED sinkVars
    /\ UNCHANGED renderVars

\* Mutant of PoolDrained: leaving the pool scope does not wait.
PoolDrained_NoWait == TRUE

\* ThreadPoolExecutor.__exit__ calls shutdown(wait=True): it returns when
\* no submitted work item is queued or running.
PoolDrained == Done = Submitted

\* The with block unwinds: shutdown(wait=True) returns once every
\* submitted work item has run, and the exception ends the script run.
ExitPoolRaising ==
    /\ pc = "unwind"
    /\ PoolDrained
    /\ pc' = "aborted"
    /\ UNCHANGED << columns, recipients, responsive, futures, i, delivered,
                    failed, progress >>
    /\ UNCHANGED storeVars
    /\ UNCHANGED stopVars
    /\ UNCHANGED sinkVars
    /\ UNCHANGED renderVars

\* --------------------------------------------- resume store operations

\* A call of save_resume_point(timestamp, data, last_sent_index).
SaveResumePoint(timestamp, data, last_sent_index) ==
    /\ store' = save_resume_point(store, timestamp, data, last_sent_index)
    /\ lastSaved' = [lastSaved EXCEPT ![timestamp] =
                        [data |-> data, last_sent_index |-> last_sent_index]]
    /\ UNCHANGED loaded
    /\ UNCHANGED runVars
    /\ UNCHANGED stopVars
    /\ UNCHANGED sinkVars
    /\ UNCHANGED renderVars

\* A call of load_resume_point(timestamp).
LoadResumePoint(timestamp) ==
    /\ loaded' = [ called |-> TRUE, timestamp |-> timestamp,
                   value |-> load_resume_point(store, timestamp),
                   expect |-> lastSaved[timestamp] ]
    /\ UNCHANGED << store, lastSaved >>
    /\ UNCHANGED runVars
    /\ UNCHANGED stopVars
    /\ UNCHANGED sinkVars
    /\ UNCHANGED renderVars

\* A checkpoint of the list about to be run is on disk before the run.
SaveBeforeRun ==
    /\ pc = "idle"
    /\ store[PathOf("t1")] = NoFile
    /\ \E cursor \in 1..NumRows : SaveResumePoint("t1", recipients, cursor)

\* The operator asks the run to stop. No statement of the campaign run
\* reads the request.
StopSignal ==
    /\ pc \in {"submit", "collect"}
    /\ ~stop
    /\ stop' = TRUE
    /\ startedAtStop' = NumStarted
    /\ UNCHANGED runVars
    /\ UNCHANGED storeVars
    /\ UNCHANGED sinkVars
    /\ UNCHANGED renderVars

\* ------------------------------------------------------ specifications

AnnRow == [email |-> PlainEmail, full_name |-> <<"A", "n", "n">>]

\* An uploaded file of at most MaxRecipients rows; the relay answers
\* every attempt.
OrdinaryInput ==
    /\ columns \in ColumnSets
    /\ recipients \in SeqUpTo({ RowOf(r, columns) : r \in RowSet }, MaxRecipients)
    /\ responsive = DOMAIN recipients
    /\ subject = CampaignSubject

\* An uploaded file of one row more than the pool has threads; the relay
\* answers only the attempts of the last PoolResponsive rows.
PoolInput ==
    /\ columns = {"email", "full_name"}
    /\ recipients = [k \in 1..(max_workers + 1) |-> AnnRow]
    /\ responsive = { k \in DOMAIN recipients :
                        k > max_workers + 1 - PoolResponsive }
    /\ subject = CampaignSubject

\* The script before the Start button is pressed.
InitState ==
    /\ pc = "idle"
    /\ futures = << >>
    /\ i = 0
    /\ delivered = 0
    /\ failed = 0
    /\ progress = << >>
    /\ store = [p \in Paths |-> NoFile]
    /\ loaded = [called |-> FALSE, timestamp |-> "t1", value |-> None,
                 expect |-> None]
    /\ lastSaved = [ts \in Timestamps |-> None]
    /\ stop = FALSE
    /\ startedAtStop = 0
    /\ sheet = << >>
    /\ rendered = [ called |-> FALSE, full_name |-> PyNone,
                    recipient_email |-> PyNone,
                    out |-> generate_email_html(PyNone, PyNone, << >>) ]

Init == InitState /\ (OrdinaryInput \/ PoolInput)

Next ==
    \/ StartCampaign
    \/ Submit
    \/ SubmitDone
    \/ WorkerStart
    \/ \E k \in DOMAIN futures, fate \in Fates : WorkerRun(k, fate)
    \/ CollectResult
    \/ CollectRaise
    \/ ExitPool
    \/ ExitPoolRaising

Spec == Init /\ [][Next]_vars

\* The resume store helpers called in any order, with the uploaded list or
\* the empty list as data.
NextStore ==
    \/ \E ts \in Timestamps, data \in {recipients, << >>},
          cursor \in {0, NumRows} : SaveResumePoint(ts, data, cursor)
    \/ \E ts \in Timestamps : LoadResumePoint(ts)

InitStore == InitState /\ OrdinaryInput

SpecStore == InitStore /\ [][NextStore]_vars

\* A run of a full list of one kind of row, with a checkpoint saved before
\* it and a stop request during it.
InitResume ==
    /\ InitState
    /\ columns \in ColumnSets
    /\ recipients = [k \in 1..MaxRecipients |-> RowOf(AnnRow, columns)]
    /\ responsive = DOMAIN recipients
    /\ subject = CampaignSubject

NextResume == Next \/ SaveBeforeRun \/ StopSignal

SpecResume == InitResume /\ [][NextResume]_vars

\* A call of generate_email_html on its own, as the preview of lines
\* 196-207 and send_email make it.
RenderMessage(full_name, recipient_email) ==
    /\ rendered' = [ called |-> TRUE, full_name |-> full_name,
                     recipient_email |-> recipient_email,
                     out |-> generate_email_html(full_name, recipient_email,
                                                 subject) ]
    /\ UNCHANGED subject
    /\ UNCHANGED runVars
    /\ UNCHANGED storeVars
    /\ UNCHANGED stopVars
    /\ UNCHANGED sinkVars

\* The renderer applied to every name, address and subject of the bounded
\* input sets.
InitRender ==
    /\ InitState
    /\ columns = {"email", "full_name"}
    /\ recipients = << >>
    /\ responsive = {}
    /\ subject \in Subjects

NextRender ==
    \E full_name \in RenderNames, recipient_email \in RenderAddresses :
        RenderMessage(full_name, recipient_email)

SpecRender == InitRender /\ [][NextRender]_vars

\* -------------------------------------------------------------- claims

RunEnded == pc \in {"completed", "aborted"}

\* C1: in a run that reaches the completed state every recipient's result
\* incremented exactly one of delivered and failed, whatever text the
\* result carries, so delivered + failed is the number of recipients.
C1_ExactlyOneCounter ==
    pc = "completed" =>
        /\ delivered + failed = NumRows
        /\ \A k \in DOMAIN futures :
              Contains(futures[k].result, CheckMark)
                  # Contains(futures[k].result, CrossMark)

\* C2: the number of send_email calls executing at the same time never
\* exceeds the pool's cap.
C2_ConcurrencyCap == Cardinality(Running) <= max_workers

\* C2 witness: the cap is reached again after a completion freed a thread
\* for the work item that had to wait.
C2_CapReached ==
    /\ Cardinality(Running) = max_workers
    /\ Done # {}
    /\ Queued = {}
    /\ Len(futures) = max_workers + 1

\* C3: a row is handed to the pool at most once and its send attempt is
\* started at most once in a run, whether it ends delivered or failed.
C3_AtMostOneAttempt ==
    /\ Len(futures) <= NumRows
    /\ \A k \in DOMAIN futures : futures[k].attempts <= 1

\* C3 witness: a completed run in which an attempt failed.
C3_FailedOnce ==
    /\ pc = "completed"
    /\ \E k \in DOMAIN futures :
          /\ futures[k].step # "none"
          /\ futures[k].attempts = 1

\* C4: send_email never raises to its caller; every failure comes back as
\* a Failed result.
C4_NeverRaises == \A k \in DOMAIN futures : futures[k].state # "raised"

\* C5: a run on a non-empty list whose transport calls all return ends in
\* the completed state with an outcome for every recipient (stated on the
\* run's final state: it never ends otherwise).
C5_RunEndsCompleted ==
    (NumRows > 0 /\ responsive = DOMAIN recipients /\ RunEnded) =>
        /\ pc = "completed"
        /\ \A k \in DOMAIN recipients :
              k \in DOMAIN futures /\ futures[k].state = "returned"

\* C6: when send_email has ended, on any path, the connection the attempt
\* opened is no longer open.
C6_ConnectionReleased == \A k \in Done : futures[k].conn # "open"

\* C7: with a checkpoint of the run's recipients on disk, no send attempt
\* is started for a recipient below the checkpoint's cursor.
C7_NoAttemptBelowCursor ==
    \A ts \in Timestamps :
        LET c == load_resume_point(store, ts)
        IN  (c # None /\ c.data = recipients) =>
                \A k \in DOMAIN futures :
                    k <= c.last_sent_index => futures[k].attempts = 0

\* C8: after a stop request no further attempt is started, and when the run
\* has ended a checkpoint of its recipients is on disk whose cursor is the
\* number of recipients attempted when the request came.
C8_StopHaltsDispatch ==
    stop =>
        /\ NumStarted = startedAtStop
        /\ RunEnded =>
              \E ts \in Timestamps :
                  load_resume_point(store, ts) =
                      [data |-> recipients, last_sent_index |-> startedAtStop]

\* C9: after any sequence of saves and loads, a load of a run identifier
\* gives the checkpoint of the most recent save under that identifier,
\* whatever was saved under the other, and None when nothing was saved; the
\* last load gave exactly that and left the store as it was.
C9_LoadGivesLastSave ==
    /\ \A ts \in Timestamps : load_resume_point(store, ts) = lastSaved[ts]
    /\ loaded.called => loaded.value = loaded.expect

\* C9 witness: a load returned a saved checkpoint whose rows hold an
\* escaped character, while the other identifier holds another checkpoint.
C9_LoadedSaved ==
    /\ loaded.called
    /\ loaded.value # None
    /\ \E k \in DOMAIN loaded.value.data :
          "email" \in DOMAIN loaded.value.data[k]
          /\ loaded.value.data[k]["email"] = MarkedEmail
    /\ \E ts \in Timestamps :
          /\ ts # loaded.timestamp
          /\ lastSaved[ts] # None
          /\ lastSaved[ts] # loaded.value

\* C10: when the recipient source has no email column no send_email call
\* is made and no connection is opened.
C10_NoSendWithoutEmailColumn ==
    "email" \notin columns =>
        /\ NumStarted = 0
        /\ \A k \in DOMAIN futures : futures[k].conn = "none"

\* C11: a run on an empty recipient list is rejected: it never reaches the
\* completed state.
C11_EmptyListRejected == NumRows = 0 => pc # "completed"

\* A progress value is the fraction num / den.
IsOne(p) == p.num = p.den
FractionLeq(p, q) == p.num * q.den <= q.num * p.den

\* C12: the progress values reported in a run never decrease, the value 1.0
\* is reported only when every recipient has an outcome, and a run that has
\* ended reported it exactly once.
C12_ProgressReachesOneOnce ==
    /\ \A j \in 1..(Len(progress) - 1) : FractionLeq(progress[j], progress[j + 1])
    /\ (\E j \in DOMAIN progress : IsOne(progress[j])) =>
           \A k \in DOMAIN recipients :
               k \in DOMAIN futures /\ futures[k].state = "returned"
    /\ RunEnded =>
           Cardinality({ j \in DOMAIN progress : IsOne(progress[j]) }) = 1

\* C13: a send attempt returns Delivered only if the relay accepted the
\* recipient's message in that attempt.
C13_DeliveredOnlyIfTransmitted ==
    \A k \in DOMAIN futures :
        futures[k].result = DeliveredText => futures[k].transmitted

\* C13 witness: in one run an attempt returned Delivered after its message
\* was accepted, and another attempt's message was refused.
C13_DeliveredAndRefused ==
    /\ \E k \in DOMAIN futures :
          futures[k].result = DeliveredText /\ futures[k].transmitted
    /\ \E k \in DOMAIN futures :
          futures[k].state = "returned" /\ futures[k].step = "send_message"

\* C14: a run that has completed appended exactly one row to the history
\* sheet, holding the run's total, delivered and failed counts.
C14_OneHistoryRow ==
    pc = "completed" =>
        /\ Len(sheet) = 1
        /\ sheet[1].total = NumRows
        /\ sheet[1].delivered = delivered
        /\ sheet[1].failed = failed

\* The values that stand for an absent full_name.
AbsentNames == { PyNone, << >>, NaN }

\* C15: for a recipient whose full_name is absent rendering does not fail,
\* the rendered body holds neither the name placeholder nor a null marker,
\* and the recipient's send attempt, once it has reached the rendering, does
\* not fail in it.
C15_AbsentNameRenders ==
    \A k \in Done :
        ("full_name" \in DOMAIN recipients[k]
            /\ "email" \in DOMAIN recipients[k]
            /\ recipients[k]["full_name"] \in AbsentNames
            /\ futures[k].step \notin {"connect", "starttls", "login"}) =>
            LET out == generate_email_html(recipients[k]["full_name"],
                                           recipients[k]["email"], subject)
            IN  /\ ~out.raised
                /\ ~Contains(out.html, NamePlaceholder)
                /\ ~Contains(out.html, NaN[1])
                /\ ~Contains(out.html, PyNone[1])
                /\ futures[k].step # "render"

\* C16: in the open-tracking, click-tracking and unsubscribe URLs no
\* reserved character of the address or of the subject appears unencoded.
C16_UrlsPercentEncoded ==
    rendered.called =>
        \A url \in { rendered.out.open_url, rendered.out.click_url,
                     rendered.out.unsubscribe_url } :
            \A k \in DOMAIN url : url[k] \notin ReservedChars

\* C17: each progress value is reported when it equals the fraction of
\* recipients whose attempt has completed: at every report in the
\* collection loop, reported / 1 = completed attempts / total recipients.
C17_ProgressIsCompletedFraction ==
    [][(pc = "collect" /\ Len(progress') > Len(progress)) =>
          LET p == progress'[Len(progress')]
          IN  p.num * NumRows = Cardinality(Done') * p.den]_vars

\* C18: no step that ends a worker's send_email call changes the counters
\* or the progress indicator, and once k results have been collected
\* delivered + failed = k.
C18_CountersCountCollected ==
    [][/\ (futures' # futures =>
              << delivered, failed, progress >>' = << delivered, failed, progress >>)
       /\ (pc' \in {"collect", "unwind", "completed", "aborted"} =>
              delivered' + failed' = i')]_vars

\* C19: no result is collected before every recipient is submitted; a run
\* whose collection was aborted by a raising attempt ends only after every
\* recipient's attempt has run to its end, exactly once, and it ends with
\* the raising future uncollected, not in the completed state, the counters
\* holding at most the results collected before it.
C19_PoolScopeWaits ==
    /\ (pc \in {"collect", "unwind", "completed", "aborted"} \/ Len(progress) > 1) =>
           Len(futures) = NumRows
    /\ pc \in {"unwind", "aborted"} =>
           /\ i < NumRows
           /\ futures[i + 1].state = "raised"
           /\ Len(progress) = i + 1
           /\ delivered <= i
    /\ pc = "aborted" =>
           \A k \in DOMAIN recipients :
               /\ futures[k].state \in {"returned", "raised"}
               /\ futures[k].attempts = 1

\* C19 witness: a run of several recipients ended by a raising attempt,
\* with the attempts after the raising one run to their end.
C19_AbortedAfterAllRan ==
    /\ pc = "aborted"
    /\ NumRows >= 2
    /\ \A k \in (i + 2)..NumRows : futures[k].state \in {"returned", "raised"}

====
